---- MODULE Spec2Model ----
(***************************************************************************)
(* A model of share/FASTQFile.py: the sequence identifier parser           *)
(* (SequenceIdentifier), the pairing predicate (is_pair_of), the record    *)
(* iterator (FastqIterator), the read counter (nreads) and the lockstep    *)
(* pair check (fastqs_are_pair).                                           *)
(*                                                                         *)
(* A Python string is a sequence of one-character strings.  None is the    *)
(* one-element sequence <<"None">>, an attribute that was never assigned   *)
(* is <<"Unset">>, and an IndexError raised while evaluating an expression *)
(* is <<"IndexError">>; no Python string equals any of the three, because  *)
(* their single element is not a character.                                *)
(***************************************************************************)
EXTENDS Integers, Sequences, FiniteSets, TLC

None == <<"None">>
Unset == <<"Unset">>
IndexError == <<"IndexError">>

NL == "\n"
Whitespace == {" ", "\t", NL}
Digits == {"0", "1", "2", "3", "4", "5", "6", "7", "8", "9"}

(***************************************************************************)
(* String primitives of Python used by the source.                         *)
(***************************************************************************)

\* s[i:] for a 0-based i
Tail0(s, i) == SubSeq(s, i + 1, Len(s))

\* str.strip(): leading and trailing whitespace removed
strip(s) ==
  LET keep == {i \in 1..Len(s) : s[i] \notin Whitespace}
  IN  IF keep = {} THEN <<>>
      ELSE LET lo == CHOOSE i \in keep : \A j \in keep : i <= j
               hi == CHOOSE i \in keep : \A j \in keep : j <= i
           IN  SubSeq(s, lo, hi)

\* str.startswith(c) for a one-character c
startswith(s, c) == Len(s) >= 1 /\ s[1] = c

\* str.split(sep): the pieces between the occurrences of sep, empty ones kept
RECURSIVE split(_, _)
split(s, sep) ==
  LET hits == {i \in 1..Len(s) : s[i] = sep}
  IN  IF hits = {} THEN <<s>>
      ELSE LET i == CHOOSE h \in hits : \A g \in hits : h <= g
           IN  <<SubSeq(s, 1, i - 1)>> \o split(Tail0(s, i), sep)

\* str.count(c)
count(s, c) == Cardinality({i \in 1..Len(s) : s[i] = c})

\* seq[k] for a 0-based k; an IndexError when k is out of range
Index(seq, k) == IF k + 1 <= Len(seq) THEN seq[k + 1] ELSE IndexError

\* s.split(sep)[k]; an IndexError raised while evaluating s propagates
SplitIndex(s, sep, k) ==
  IF s = IndexError THEN IndexError ELSE Index(split(s, sep), k)

DigitVal(c) ==
  CASE c = "0" -> 0 [] c = "1" -> 1 [] c = "2" -> 2 [] c = "3" -> 3
    [] c = "4" -> 4 [] c = "5" -> 5 [] c = "6" -> 6 [] c = "7" -> 7
    [] c = "8" -> 8 [] c = "9" -> 9

RECURSIVE DecVal(_)
DecVal(ds) ==
  IF ds = <<>> THEN 0
  ELSE 10 * DecVal(SubSeq(ds, 1, Len(ds) - 1)) + DigitVal(ds[Len(ds)])

\* int(v): surrounding whitespace and one sign are accepted, then decimal
\* digits; anything else is a ValueError, and int(None) is a TypeError
int(v) ==
  IF v = None THEN [err |-> "TypeError", val |-> 0]
  ELSE LET t == strip(v)
           signed == Len(t) >= 1 /\ t[1] \in {"+", "-"}
           ds == IF signed THEN Tail0(t, 1) ELSE t
       IN  IF ds # <<>> /\ \A i \in 1..Len(ds) : ds[i] \in Digits
           THEN [err |-> "ok",
                 val |-> IF signed /\ t[1] = "-" THEN 0 - DecVal(ds) ELSE DecVal(ds)]
           ELSE [err |-> "ValueError", val |-> 0]

(***************************************************************************)
(* SequenceIdentifier                                                      *)
(***************************************************************************)

\* The values of self.format; like None they are no character sequences
illumina18 == <<"illumina18">>
illumina == <<"illumina">>

\* The attributes a SequenceIdentifier object can carry; "seqid" is the
\* private self.__seqid
Attrs ==
  {"seqid", "format", "instrument_name", "run_id", "flowcell_id",
   "flowcell_lane", "tile_no", "x_coord", "y_coord", "multiplex_index_no",
   "pair_id", "bad_read", "control_bit_flag", "index_sequence"}

\* The attributes a dialect attempt assigns, in both attempts in this order
AssignOrder ==
  <<"instrument_name", "run_id", "flowcell_id", "flowcell_lane", "tile_no",
    "x_coord", "y_coord", "multiplex_index_no", "pair_id", "bad_read",
    "control_bit_flag", "index_sequence", "format">>

\* The right-hand sides of the assignments of the Illumina 1.8+ attempt
Illumina18Values(fields) ==
  <<Index(fields, 0), Index(fields, 1), Index(fields, 2), Index(fields, 3),
    Index(fields, 4), Index(fields, 5),
    SplitIndex(Index(fields, 6), " ", 0),
    None,
    SplitIndex(Index(fields, 6), " ", 1),
    Index(fields, 7), Index(fields, 8), Index(fields, 9),
    illumina18>>

\* The right-hand sides of the assignments of the earlier Illumina attempt
IlluminaValues(fields) ==
  <<Index(fields, 0), None, None, Index(fields, 1), Index(fields, 2),
    Index(fields, 3),
    SplitIndex(Index(fields, 4), "#", 0),
    SplitIndex(SplitIndex(Index(fields, 4), "#", 1), "/", 0),
    SplitIndex(SplitIndex(Index(fields, 4), "#", 1), "/", 1),
    None, None, None,
    illumina>>

\* A try block of assignments: they are made in order up to the first
\* right-hand side that raises IndexError, which the except clause swallows
TryAssign(obj, vals) ==
  LET errs == {k \in 1..Len(vals) : vals[k] = IndexError}
      stop == IF errs = {} THEN Len(vals) + 1
              ELSE CHOOSE k \in errs : \A j \in errs : k <= j
  IN  [a \in Attrs |->
         IF \E k \in 1..(stop - 1) : AssignOrder[k] = a
         THEN vals[CHOOSE k \in 1..(stop - 1) : AssignOrder[k] = a]
         ELSE obj[a]]

\* The object after the first two assignments of __init__: the stripped
\* text and format None
NewIdentifier(s) ==
  [a \in Attrs |-> IF a = "seqid" THEN s ELSE IF a = "format" THEN None ELSE Unset]

\* The second try block, entered when the first did not return
EarlierAttempt(obj, fields) ==
  IF obj["format"] = illumina18 THEN obj
  ELSE TryAssign(obj, IlluminaValues(fields))

\* The two try blocks in turn, on the fields of self.__seqid[1:].split(':')
Attempts(obj, fields) ==
  EarlierAttempt(TryAssign(obj, Illumina18Values(fields)), fields)

\* SequenceIdentifier.__init__(seqid)
SequenceIdentifier(seqid) ==
  IF ~startswith(seqid, "@") THEN NewIdentifier(strip(seqid))
  ELSE Attempts(NewIdentifier(strip(seqid)), split(Tail0(strip(seqid), 1), ":"))

\* CompareOrder with the tile comparison left out
CompareOrderNoTile ==
  <<"instrument_name", "run_id", "flowcell_id", "flowcell_lane",
    "x_coord", "y_coord", "multiplex_index_no", "bad_read",
    "control_bit_flag", "index_sequence">>

\* The attributes is_pair_of compares, in the order of its conjunction
CompareOrder ==
  <<"instrument_name", "run_id", "flowcell_id", "flowcell_lane", "tile_no",
    "x_coord", "y_coord", "multiplex_index_no", "bad_read",
    "control_bit_flag", "index_sequence">>

\* AttributesMatch reading the attributes with a default, so that an
\* attribute both objects lack compares equal
AttributesMatchDefault(self, seqid) ==
  IF \A k \in 1..Len(CompareOrder) : self[CompareOrder[k]] = seqid[CompareOrder[k]]
  THEN "True" ELSE "False"

\* The and-chain of is_pair_of: it stops at the first pair of attributes that
\* differ (False) or at the first attribute one of the objects lacks
\* (AttributeError); True when it runs to its end
AttributesMatch(self, seqid) ==
  LET bad == {k \in 1..Len(CompareOrder) :
                \/ self[CompareOrder[k]] = Unset
                \/ seqid[CompareOrder[k]] = Unset
                \/ self[CompareOrder[k]] # seqid[CompareOrder[k]]}
  IN  IF bad = {} THEN "True"
      ELSE LET k == CHOOSE b \in bad : \A c \in bad : b <= c
           IN  IF self[CompareOrder[k]] = Unset \/ seqid[CompareOrder[k]] = Unset
               THEN "AttributeError" ELSE "False"

\* sorted([x, y])
Sorted2(x, y) == IF x <= y THEN <<x, y>> ELSE <<y, x>>

\* int(obj.pair_id): an AttributeError when the object has no pair_id
IntPairId(obj) ==
  IF obj["pair_id"] = Unset THEN [err |-> "AttributeError", val |-> 0]
  ELSE int(obj["pair_id"])

\* is_pair_of once its two read indices i1 and i2 are evaluated, in this
\* order: the exception of the first that fails, else False unless the
\* sorted indices are [1, 2], else the and-chain, whose exceptions give False
PairOfIndices(self, seqid, i1, i2) ==
  IF i1.err # "ok" THEN i1.err
  ELSE IF i2.err # "ok" THEN i2.err
  ELSE IF Sorted2(i1.val, i2.val) # <<1, 2>> THEN "False"
  ELSE IF AttributesMatch(self, seqid) = "True" THEN "True"
  ELSE "False"

\* self.is_pair_of(seqid): "True", "False", or the name of the exception that
\* leaves the method.  The two int() conversions are outside the try block.
is_pair_of(self, seqid) ==
  PairOfIndices(self, seqid, IntPairId(self), IntPairId(seqid))

\* "%s" % v: the text itself, and "None" for None
Str(v) == IF v = None THEN <<"N", "o", "n", "e">> ELSE v

\* SequenceIdentifier.__repr__: the fields in the layout of the dialect, or
\* self.__seqid (the stripped text) when no dialect was recognised
SequenceIdentifier_repr(self) ==
  IF self["format"] = illumina18
  THEN <<"@">> \o Str(self["instrument_name"]) \o <<":">> \o Str(self["run_id"])
         \o <<":">> \o Str(self["flowcell_id"]) \o <<":">> \o Str(self["flowcell_lane"])
         \o <<":">> \o Str(self["tile_no"]) \o <<":">> \o Str(self["x_coord"])
         \o <<":">> \o Str(self["y_coord"]) \o <<" ">> \o Str(self["pair_id"])
         \o <<":">> \o Str(self["bad_read"]) \o <<":">> \o Str(self["control_bit_flag"])
         \o <<":">> \o Str(self["index_sequence"])
  ELSE IF self["format"] = illumina
  THEN <<"@">> \o Str(self["instrument_name"]) \o <<":">> \o Str(self["flowcell_lane"])
         \o <<":">> \o Str(self["tile_no"]) \o <<":">> \o Str(self["x_coord"])
         \o <<":">> \o Str(self["y_coord"]) \o <<"#">> \o Str(self["multiplex_index_no"])
         \o <<"/">> \o Str(self["pair_id"])
  ELSE self["seqid"]

(***************************************************************************)
(* File handles.  A handle is the data of the file it was opened on, the   *)
(* offset of the next character to read and whether it has been closed;    *)
(* reading from a closed handle raises ValueError.                         *)
(***************************************************************************)

\* open(...) / gzip.open(...): a handle at the start of the file's data
OpenHandle(data) == [data |-> data, pos |-> 0, closed |-> FALSE]

\* fp.close()
CloseHandle(fp) == [fp EXCEPT !.closed = TRUE]

\* fp.readline() on an open handle: the text up to and including the next
\* newline, or up to the end of the data; '' at the end of the data
readline(fp) ==
  LET rest == Tail0(fp.data, fp.pos)
      nls == {i \in 1..Len(rest) : rest[i] = NL}
      n == IF nls = {} THEN Len(rest)
           ELSE CHOOSE i \in nls : \A j \in nls : i <= j
  IN  [line |-> SubSeq(rest, 1, n), fp |-> [fp EXCEPT !.pos = fp.pos + n]]

\* fp.read(size) on an open handle: at most size characters
read(fp, size) ==
  LET rest == Tail0(fp.data, fp.pos)
      n == IF Len(rest) < size THEN Len(rest) ELSE size
  IN  [buf |-> SubSeq(rest, 1, n), fp |-> [fp EXCEPT !.pos = fp.pos + n]]

(***************************************************************************)
(* FastqRead and FastqIterator                                             *)
(***************************************************************************)

\* FastqRead.__init__
FastqRead(seqid_line, seq_line, optid_line, quality_line) ==
  [raw_seqid |-> seqid_line,
   sequence |-> strip(seq_line),
   optid |-> strip(optid_line),
   quality |-> strip(quality_line)]

\* What a pull returns when it yields no record
NoRead == [raw_seqid |-> None, sequence |-> None, optid |-> None, quality |-> None]

\* FastqRead.seqid: the identifier object, built from raw_seqid on first use
\* and kept in self._seqid; cache is that attribute, <<>> while unassigned
FastqRead_seqid(self, cache) ==
  IF cache # <<>> THEN cache[1] ELSE SequenceIdentifier(self.raw_seqid)

\* The characters of '.0123'
ColorspaceChars == {".", "0", "1", "2", "3"}

\* is_colorspace without the test of the identifier's format
is_colorspaceAnyFormat(self, cache) ==
  IF startswith(self.sequence, "T")
  THEN \A k \in 2..Len(self.sequence) : self.sequence[k] \in ColorspaceChars
  ELSE FALSE

\* FastqRead.is_colorspace
is_colorspace(self, cache) ==
  IF FastqRead_seqid(self, cache)["format"] = None /\ startswith(self.sequence, "T")
  THEN \A k \in 2..Len(self.sequence) : self.sequence[k] \in ColorspaceChars
  ELSE FALSE

\* FastqRead.seqlen
seqlen(self, cache) ==
  IF is_colorspace(self, cache) THEN Len(self.sequence) - 1 ELSE Len(self.sequence)

\* ord() on the quality characters of the model, and its inverse chr()
ord == ("!" :> 33) @@ ("5" :> 53) @@ ("I" :> 73)
chr(n) == CHOOSE c \in DOMAIN ord : ord[c] = n

max(a, b) == IF a >= b THEN a ELSE b
min(a, b) == IF a <= b THEN a ELSE b

\* chr(None) raises TypeError
TypeError == <<"TypeError">>

\* return chr(maxqual), maxqual being <<>> for None and <<n>> for the code n
ChrOf(qual) == IF qual = <<>> THEN TypeError ELSE <<chr(qual[1])>>

\* The loop of maxquality over the rest of the quality string
RECURSIVE MaxQual(_, _)
MaxQual(quality, maxqual) ==
  IF quality = <<>> THEN maxqual
  ELSE MaxQual(Tail(quality),
               IF maxqual = <<>> THEN <<ord[Head(quality)]>>
               ELSE <<max(maxqual[1], ord[Head(quality)])>>)

\* The loop of minquality over the rest of the quality string
RECURSIVE MinQual(_, _)
MinQual(quality, minqual) ==
  IF quality = <<>> THEN minqual
  ELSE MinQual(Tail(quality),
               IF minqual = <<>> THEN <<ord[Head(quality)]>>
               ELSE <<min(minqual[1], ord[Head(quality)])>>)

\* FastqRead.maxquality and FastqRead.minquality: a character, or TypeError
maxquality(self) == ChrOf(MaxQual(self.quality, <<>>))
minquality(self) == ChrOf(MinQual(self.quality, <<>>))

\* FastqIterator.__init__(fastq_file, fp): the handle is the caller's fp when
\* one is given, else one opened on the named file, whose data is `data`
FastqIterator(fastq_file, fp_given, data) ==
  [fastq_file |-> fastq_file, fp |-> OpenHandle(data), fp_given |-> fp_given]

\* n successive fp.readline() calls: the lines read and the handle after
RECURSIVE readlines(_, _)
LineThen(r, rest) == [lines |-> <<r.line>> \o rest.lines, fp |-> rest.fp]
ReadMore(r, n) == LineThen(r, readlines(r.fp, n))
readlines(fp, n) ==
  IF n = 0 THEN [lines |-> <<>>, fp |-> fp]
  ELSE ReadMore(readline(fp), n - 1)

\* The number of non-empty lines among those a pull has read
LinesRead(lines) == Cardinality({k \in 1..Len(lines) : lines[k] # <<>>})

\* next() testing the first line of the four instead of the fourth
NextOfFirstLine(it, r) ==
  IF r.lines[1] # <<>>
  THEN [it |-> [it EXCEPT !.fp = r.fp],
        outcome |-> "FastqRead",
        read |-> FastqRead(r.lines[1], r.lines[2], r.lines[3], r.lines[4]),
        nlines |-> LinesRead(r.lines)]
  ELSE [it |-> [it EXCEPT !.fp = IF it.fastq_file = "None"
                                  THEN CloseHandle(r.fp) ELSE r.fp],
        outcome |-> "StopIteration",
        read |-> NoRead,
        nlines |-> LinesRead(r.lines)]

\* FastqIterator.next() after its four readline() calls, r = readlines(fp, 4)
NextOf(it, r) ==
  IF r.lines[4] # <<>>
  THEN [it |-> [it EXCEPT !.fp = r.fp],
        outcome |-> "FastqRead",
        read |-> FastqRead(r.lines[1], r.lines[2], r.lines[3], r.lines[4]),
        nlines |-> LinesRead(r.lines)]
  ELSE [it |-> [it EXCEPT !.fp = IF it.fastq_file = "None"
                                  THEN CloseHandle(r.fp) ELSE r.fp],
        outcome |-> "StopIteration",
        read |-> NoRead,
        nlines |-> LinesRead(r.lines)]

\* FastqIterator.next(): four readline() calls, then a record if the fourth
\* line is not '', else the end of the iteration, at which the handle is
\* closed if self.__fastq_file is None.  The result is the iterator after the
\* call, the outcome ("FastqRead", "StopIteration" or the exception raised),
\* the record and the number of lines the call consumed.
next(it) ==
  IF it.fp.closed
  THEN [it |-> it, outcome |-> "ValueError", read |-> NoRead, nlines |-> 0]
  ELSE NextOf(it, readlines(it.fp, 4))

(***************************************************************************)
(* nreads and FastqAttributes                                              *)
(***************************************************************************)

\* buf_size of nreads, scaled down from 1024 * 1024 so that the files of the
\* model span several blocks
buf_size == 2

\* BufCount with an `if` in place of the `while`: one block is counted
BufCountOnce(fp, n) ==
  LET r == read(fp, buf_size)
  IN  [fp |-> r.fp, nlines |-> n + count(r.buf, NL)]

\* The counting loop of nreads: blocks are read until one is empty, and the
\* newlines of each are added up
RECURSIVE BufCount(_, _)
BufCount(fp, n) ==
  LET r == read(fp, buf_size)
  IN  IF r.buf = <<>> THEN [fp |-> r.fp, nlines |-> n]
      ELSE BufCount(r.fp, n + count(r.buf, NL))

\* nreads(fastq, fp).  fp is <<>> for None and <<handle>> for a handle; data
\* is the text of the file named fastq, read when the function opens the file
\* itself.  The result is the handle after the call and the outcome: the
\* value returned, or the exception raised.
nreads(fastq, fp, data) ==
  LET fp0 == IF fp = <<>> THEN OpenHandle(data) ELSE fp[1]
  IN  IF fp0.closed
      THEN [fp |-> fp0, outcome |-> "ValueError", value |-> 0]
      ELSE LET c == BufCount(fp0, 0)
               fp1 == IF fastq # "None" THEN CloseHandle(c.fp) ELSE c.fp
           IN  IF c.nlines % 4 # 0
               THEN [fp |-> fp1, outcome |-> "Exception", value |-> 0]
               ELSE [fp |-> fp1, outcome |-> "return", value |-> c.nlines \div 4]

\* FastqAttributes.__init__(fastq_file, fp); self.__nreads is <<>> for None
FastqAttributes(fastq_file, fp_given, data) ==
  [fastq_file |-> fastq_file, fp |-> OpenHandle(data), fp_given |-> fp_given,
   nreads |-> <<>>]

\* The property FastqAttributes.nreads: the object after the query and the
\* outcome of the query
FastqAttributes_nreads(self) ==
  IF self.nreads = <<>>
  THEN LET r == nreads(self.fastq_file, <<self.fp>>, self.fp.data)
       IN  [self |-> [self EXCEPT !.fp = r.fp,
                                  !.nreads = IF r.outcome = "return"
                                             THEN <<r.value>> ELSE <<>>],
            outcome |-> r.outcome, value |-> r.value]
  ELSE [self |-> self, outcome |-> "return", value |-> self.nreads[1]]

(***************************************************************************)
(* fastqs_are_pair                                                         *)
(***************************************************************************)

\* One slot of an izip_longest step, for an iterator whose pull gave p: the
\* iterator after the step, whether it is now known exhausted, its item
\* (None for an exhausted iterator), the number of pulls made, and whether
\* this pull found it exhausted ("stop") or raised ("ValueError")
Slot(iter, done, p) ==
  IF done
  THEN [it |-> iter, done |-> TRUE, item |-> NoRead, n |-> 0, event |-> "fill"]
  ELSE IF p.outcome = "StopIteration"
  THEN [it |-> p.it, done |-> TRUE, item |-> NoRead, n |-> 1, event |-> "stop"]
  ELSE IF p.outcome = "ValueError"
  THEN [it |-> p.it, done |-> FALSE, item |-> NoRead, n |-> 1, event |-> "ValueError"]
  ELSE [it |-> p.it, done |-> FALSE, item |-> p.read, n |-> 1, event |-> "item"]

\* The result of an izip_longest step that ended at the first slot
EndAtFirst(x, b, done2, result) ==
  [a |-> x.it, b |-> b, done1 |-> x.done, done2 |-> done2, result |-> result,
   r1 |-> NoRead, r2 |-> NoRead, n1 |-> x.n, n2 |-> 0]

\* The result of an izip_longest step that went through both slots
AfterSecond(x, y) ==
  [a |-> x.it, b |-> y.it, done1 |-> x.done, done2 |-> y.done,
   result |-> IF y.event = "ValueError" THEN "ValueError"
              ELSE IF y.event = "stop" /\ x.done THEN "stop"
              ELSE "item",
   r1 |-> x.item, r2 |-> y.item,
   n1 |-> x.n, n2 |-> y.n]

\* An izip_longest step after its first slot x
AfterFirst(x, b, done2) ==
  IF x.event = "ValueError" THEN EndAtFirst(x, b, done2, "ValueError")
  ELSE IF x.event = "stop" /\ done2 THEN EndAtFirst(x, b, done2, "stop")
  ELSE AfterSecond(x, Slot(b, done2, next(b)))

\* One step of itertools.izip_longest over two FastqIterators.  done1 and
\* done2 say which iterators were found exhausted in an earlier step: such an
\* iterator is not pulled again and None stands for its item.  The step ends
\* the iteration ("stop") when the last live iterator is found exhausted, and
\* an exception of a pull leaves it.
izip_longest(a, b, done1, done2) ==
  AfterFirst(Slot(a, done1, next(a)), b, done2)

\* for read in FastqIterator(...): the records pulled until a pull yields none
RECURSIVE AllReads(_)
AllReads(iter) ==
  LET r == next(iter)
  IN  IF r.outcome = "FastqRead" THEN <<r.read>> \o AllReads(r.it) ELSE <<>>

\* The test of the loop body of fastqs_are_pair on the pair (r1, r2):
\* r1.seqid.is_pair_of(r2.seqid), an AttributeError when r1 or r2 is None
BodyTest(r1, r2) ==
  IF r1 = NoRead \/ r2 = NoRead THEN "AttributeError"
  ELSE is_pair_of(SequenceIdentifier(r1.raw_seqid), SequenceIdentifier(r2.raw_seqid))

(***************************************************************************)
(* Identifier lines given to the parser.  MaxFields bounds the number of   *)
(* colon-separated fields; the lines cover every field count up to it,     *)
(* both dialects, one altered field at a time, the pair descriptors that   *)
(* int() accepts or rejects, and lines without the marker.                 *)
(***************************************************************************)
MaxFields == 11

RECURSIVE Join(_, _)
Join(fields, sep) ==
  IF Len(fields) = 0 THEN <<>>
  ELSE IF Len(fields) = 1 THEN fields[1]
  ELSE fields[1] \o <<sep>> \o Join(Tail(fields), sep)

FieldChar == <<"a", "b", "c", "d", "e", "f", "g", "h", "i", "j", "k", "l", "m">>

\* n fields, distinct letters, the 5th and the 7th as given
Fields(n, f5, f7) ==
  [k \in 1..n |-> IF k = 5 THEN f5 ELSE IF k = 7 THEN f7 ELSE <<FieldChar[k]>>]

Altered(fields, k) == [fields EXCEPT ![k] = <<"z">>]

Line(fields) == <<"@">> \o Join(fields, ":")

Seventh1 == <<"g", " ", "1">>
Seventh2 == <<"g", " ", "2">>
SeventhForms ==
  {Seventh1, Seventh2, <<"g", " ", "0", "1">>, <<"g", " ", "x">>, <<"g">>,
   <<"g", " ">>, <<"k", " ", "2">>, <<"g", " ", "2", " ", "1">>}

Fifth1 == <<"e", "#", "0", "/", "1">>
Fifth2 == <<"e", "#", "0", "/", "2">>
FifthForms ==
  {Fifth1, Fifth2, <<"e", "#", "1", "/", "2">>, <<"k", "#", "0", "/", "2">>,
   <<"e", "#", "0">>, <<"e", "#", "0", "/", "x">>, <<"e", "#", "/", "2">>,
   <<"e", "/", "2">>}

\* The two identifier lines quoted as examples in the source
Example18 ==
  <<"@", "E", "A", "S", "1", "3", "9", ":", "1", "3", "6", ":", "F", "C",
    "7", "0", "6", "V", "J", ":", "2", ":", "2", "1", "0", "4", ":", "1",
    "5", "3", "4", "3", ":", "1", "9", "7", "3", "9", "3", " ", "1", ":",
    "Y", ":", "1", "8", ":", "A", "T", "C", "A", "C", "G">>

ExampleLegacy ==
  <<"@", "H", "W", "U", "S", "I", "-", "E", "A", "S", "1", "0", "0", "R",
    ":", "6", ":", "7", "3", ":", "9", "4", "1", ":", "1", "9", "7", "3",
    "#", "0", "/", "1">>

IdLines ==
  {Line(Fields(n, <<"e">>, f7)) : n \in 0..MaxFields, f7 \in {Seventh1, Seventh2}}
    \cup {Line(Altered(Fields(10, <<"e">>, f7), k)) :
            k \in (1..10) \ {7}, f7 \in {Seventh1, Seventh2}}
    \cup {Line(Fields(10, <<"e">>, f7)) : f7 \in SeventhForms}
    \cup {Line(Fields(5, f5, Seventh1)) : f5 \in FifthForms}
    \cup {Line(Fields(n, f5, Seventh1)) : n \in {6, 7, 9, 10}, f5 \in {Fifth1, Fifth2}}
    \cup {Line(Altered(Fields(5, f5, Seventh1), k)) :
            k \in 1..4, f5 \in {Fifth1, Fifth2}}
    \cup {Join(Fields(10, <<"e">>, Seventh1), ":"),
          Join(Fields(5, Fifth1, Seventh1), ":"),
          <<" ">> \o Line(Fields(10, <<"e">>, Seventh1)),
          Line(Fields(10, <<"e">>, Seventh2)) \o <<NL>>,
          Line(Fields(5, Fifth2, Seventh1)) \o <<NL>>,
          Line(Fields(4, <<"e">>, Seventh1)) \o <<NL>>,
          Line([Fields(11, <<"e">>, Seventh1) EXCEPT ![10] = <<"j", " ">>]),
          <<>>, Example18, ExampleLegacy}

(***************************************************************************)
(* File contents given to the iterator.  MaxLines bounds the number of     *)
(* lines; the last line of a file may lack its newline.                    *)
(***************************************************************************)
MaxLines == 5

FileLines == {<<"@", "r">>, <<"A", "C">>, <<"!">>, <<>>}

\* The text of a file of the given lines
RECURSIVE Content(_, _)
Content(lines, final_newline) ==
  IF Len(lines) = 0 THEN <<>>
  ELSE IF Len(lines) = 1
       THEN lines[1] \o (IF final_newline THEN <<NL>> ELSE <<>>)
       ELSE lines[1] \o <<NL>> \o Content(Tail(lines), final_newline)

\* The ways to construct an iterator: from a file name, from a handle of the
\* caller's, or from both (the handle is used, the name kept)
Path == "reads.fastq"
Constructions ==
  {<<Path, FALSE>>, <<"None", TRUE>>, <<Path, TRUE>>}

(***************************************************************************)
(* File contents given to nreads: up to MaxCountLines lines, empty or not. *)
(***************************************************************************)
MaxCountLines == 8

CountLines == {<<>>, <<"x">>}

(***************************************************************************)
(* Files given to fastqs_are_pair: up to MaxReads records each, with the   *)
(* identifier of a read 1, of the read 2 of the same fragment, or one that *)
(* is no Illumina identifier; a file may end in the first line of a        *)
(* further record.                                                         *)
(***************************************************************************)
MaxReads == 2

PairIds ==
  {Line(Fields(5, Fifth1, Seventh1)), Line(Fields(5, Fifth2, Seventh1)), <<"x">>}

RecordLines(id) == <<id, <<"A", "C">>, <<"+">>, <<"!", "!">>>>

RECURSIVE Flatten(_)
Flatten(seqs) == IF Len(seqs) = 0 THEN <<>> ELSE seqs[1] \o Flatten(Tail(seqs))

\* The text of a file of records with the given identifiers
PairFile(ids, truncated) ==
  Content(Flatten([k \in 1..Len(ids) |-> RecordLines(ids[k])])
            \o (IF truncated THEN <<Line(Fields(5, Fifth1, Seventh1))>> ELSE <<>>),
          TRUE)

(***************************************************************************)
(* SolidExperiment and get_experiments (analyse_solid_run.py).  A project  *)
(* is its name, the prefixes of its libraries in order (lib.prefix), the   *)
(* run_dir of its run (project.getRun().run_dir) and an id that stands for *)
(* the identity of the object.  An experiment is its list of projects, its *)
(* analysis_dir ('' is <<>>) and the run_dir of its solid_run.             *)
(***************************************************************************)

\* The codes of the characters that occur in the library prefixes
ascii == ("A" :> 65) @@ ("B" :> 66) @@ ("C" :> 67) @@ ("_" :> 95)

\* a < b on two strings, as Python orders them
RECURSIVE StrLess(_, _)
StrLess(a, b) ==
  IF b = <<>> THEN FALSE
  ELSE IF a = <<>> THEN TRUE
  ELSE IF a[1] # b[1] THEN ascii[a[1]] < ascii[b[1]]
  ELSE StrLess(Tail(a), Tail(b))

\* list.sort() on a list of strings
RECURSIVE Insert(_, _)
Insert(x, list) ==
  IF list = <<>> THEN <<x>>
  ELSE IF StrLess(list[1], x) THEN <<list[1]>> \o Insert(x, Tail(list))
  ELSE <<x>> \o list

RECURSIVE sort(_)
sort(list) == IF list = <<>> THEN <<>> ELSE Insert(list[1], sort(Tail(list)))

\* str.strip(chars): leading and trailing characters of chars removed
strip_chars(s, chars) ==
  LET keep == {k \in 1..Len(s) : s[k] \notin chars}
  IN  IF keep = {} THEN <<>>
      ELSE SubSeq(s, CHOOSE k \in keep : \A j \in keep : k <= j,
                     CHOOSE k \in keep : \A j \in keep : j <= k)

\* os.path.join(a, b)
os_path_join(a, b) ==
  IF startswith(b, "/") THEN b
  ELSE IF a = <<>> \/ a[Len(a)] = "/" THEN a \o b
  ELSE a \o <<"/">> \o b

\* os.path.basename(p): what follows the last '/'
os_path_basename(p) ==
  LET hits == {k \in 1..Len(p) : p[k] = "/"}
  IN  IF hits = {} THEN p
      ELSE Tail0(p, CHOOSE k \in hits : \A j \in hits : j <= k)

\* str(n) for n >= 0
RECURSIVE str(_)
str(n) ==
  LET d == CHOOSE c \in Digits : DigitVal(c) = n % 10
  IN  IF n < 10 THEN <<d>> ELSE str(n \div 10) \o <<d>>

\* SolidExperiment.__init__(project, run) with a project given
SolidExperiment(project, run) ==
  [projects |-> <<project>>, analysis_dir |-> <<>>, solid_run |-> run.run_dir]

\* SolidExperiment.addProject(project)
addProject(self, project) == [self EXCEPT !.projects = Append(self.projects, project)]

\* The inner loop of prefixes(): the prefixes not yet listed are appended
RECURSIVE AppendNew(_, _)
AppendNew(listed, libraries) ==
  IF libraries = <<>> THEN listed
  ELSE AppendNew(IF \E k \in 1..Len(listed) : listed[k] = libraries[1]
                 THEN listed ELSE Append(listed, libraries[1]),
                 Tail(libraries))

\* The outer loop of prefixes(), over the projects
RECURSIVE AllPrefixes(_, _)
AllPrefixes(listed, projects) ==
  IF projects = <<>> THEN listed
  ELSE AllPrefixes(AppendNew(listed, projects[1].libraries), Tail(projects))

\* prefixes() without the sort
prefixesUnsorted(self) == AllPrefixes(<<>>, self.projects)

\* SolidExperiment.prefixes()
prefixes(self) == sort(AllPrefixes(<<>>, self.projects))

\* getExperimentName() on the list p that self.prefixes() returns
NameFrom(self, p) ==
  IF Len(p) > 1 THEN self.projects[1].name \o <<"_", "e", "x", "p", "t">>
  ELSE IF Len(p) = 1 THEN strip_chars(p[1], {"_"}) \o <<"_", "e", "x", "p", "t">>
  ELSE <<"U", "N", "K", "N", "O", "W", "N", "_", "e", "x", "p", "t">>

\* SolidExperiment.getExperimentName()
getExperimentName(self) == NameFrom(self, prefixes(self))

\* The experiment with its analysis_dir set, and the value returned
WithDir(self, d) == [self |-> [self EXCEPT !.analysis_dir = d], value |-> d]

\* SolidExperiment.getAnalysisDir(suffix): the experiment after the call and
\* the value it returns
getAnalysisDir(self, suffix) ==
  IF self.analysis_dir # <<>> /\ suffix = <<>>
  THEN [self |-> self, value |-> self.analysis_dir]
  ELSE IF self.projects # <<>>
  THEN WithDir(self,
               os_path_join(self.projects[1].run_dir
                              \o <<"_", "a", "n", "a", "l", "y", "s", "i", "s",
                                   "_", "t", "e", "s", "t">>,
                            getExperimentName(self)) \o suffix)
  ELSE [self |-> self, value |-> <<>>]

\* The projects the three nested for loops of get_experiments visit, in
\* order, each with its run
RECURSIVE ProjectsOfSamples(_, _)
ProjectsOfSamples(samples, run) ==
  IF samples = <<>> THEN <<>>
  ELSE [k \in 1..Len(samples[1].projects) |->
          [project |-> samples[1].projects[k], run |-> run]]
         \o ProjectsOfSamples(Tail(samples), run)

RECURSIVE ProjectsOfRuns(_)
ProjectsOfRuns(runs) ==
  IF runs = <<>> THEN <<>>
  ELSE ProjectsOfSamples(runs[1].samples, runs[1]) \o ProjectsOfRuns(Tail(runs))

\* The body of the innermost for loop on the new experiment expt: the
\* project joins the first earlier experiment with the same prefixes, else
\* expt is appended
Group(list, expt, project) ==
  LET same == {k \in 1..Len(list) : prefixes(expt) = prefixes(list[k])}
  IN  IF same = {} THEN Append(list, expt)
      ELSE [list EXCEPT ![CHOOSE k \in same : \A j \in same : k <= j] =
                          addProject(@, project)]

(***************************************************************************)
(* Runs given to get_experiments.  MaxProjects bounds the number of        *)
(* projects; they are shared out between two runs, each run holding them   *)
(* in one sample or in one sample per project.  The kinds of project cover *)
(* no library, one prefix (equal after strip("_") or not), several         *)
(* prefixes in either order and with repeats, and equal project names.     *)
(***************************************************************************)
MaxProjects == 3

ProjectKinds ==
  {[name |-> <<"P", "J">>, libraries |-> <<>>],
   [name |-> <<"P", "J">>, libraries |-> <<<<"A">>>>],
   [name |-> <<"Q", "K">>, libraries |-> <<<<"A", "_">>>>],
   [name |-> <<"Q", "K">>, libraries |-> <<<<"_", "A">>, <<"_", "A">>>>],
   [name |-> <<"P", "J">>, libraries |-> <<<<"A">>, <<"B">>>>],
   [name |-> <<"Q", "K">>, libraries |-> <<<<"B">>, <<"A">>, <<"B">>>>],
   [name |-> <<"P", "J">>, libraries |-> <<<<"A">>, <<"C">>>>]}

RunDirs == <<<<"/", "d", "/", "r", "1">>, <<"r", "2">>>>

\* The projects of kinds[lo..hi] as objects of the run with directory dir
ProjectObjects(kinds, lo, hi, dir) ==
  [k \in 1..(hi - lo + 1) |->
     [id |-> lo + k - 1, name |-> kinds[lo + k - 1].name,
      libraries |-> kinds[lo + k - 1].libraries, run_dir |-> dir]]

Samples(projects, one_sample) ==
  IF one_sample THEN <<[projects |-> projects]>>
  ELSE [k \in 1..Len(projects) |-> [projects |-> <<projects[k]>>]]

\* Two runs: the first holds the first r projects
SolidRuns(kinds, r, one_sample) ==
  <<[run_dir |-> RunDirs[1],
     samples |-> Samples(ProjectObjects(kinds, 1, r, RunDirs[1]), one_sample)],
    [run_dir |-> RunDirs[2],
     samples |-> Samples(ProjectObjects(kinds, r + 1, Len(kinds), RunDirs[2]), one_sample)]>>

(***************************************************************************)
(* Reads whose properties are queried.  MaxSeqLen and MaxQualLen bound the *)
(* sequence and the quality string; the identifier is unrecognised (with   *)
(* and without the marker) or of either dialect.                           *)
(***************************************************************************)
MaxSeqLen == 3
MaxQualLen == 2

Strings(chars, n) == UNION {[1..k -> chars] : k \in 0..n}

ReadIdLines == {<<"@", "r">>, <<"x">>, Example18, ExampleLegacy}
SeqChars == {"T", "0", ".", "A"}
QualChars == DOMAIN ord

(***************************************************************************)
(* State                                                                   *)
(***************************************************************************)
VARIABLES
  line_a, line_b,   \* the identifier lines two SequenceIdentifier objects are built from
  id_a, id_b,       \* the two SequenceIdentifier objects
  out_ab, out_ba,   \* the outcomes of id_a.is_pair_of(id_b) and id_b.is_pair_of(id_a)
  it,               \* a FastqIterator
  outcome,          \* the outcome of the last it.next()
  nlines,           \* the number of lines the last it.next() consumed
  rec,              \* the record the last it.next() returned
  nrecords,         \* the number of records it has returned so far
  at,               \* a FastqAttributes object
  q_out,            \* the outcome of the last query of at.nreads
  nqueries,         \* the number of queries of at.nreads so far
  fn_out,           \* the outcome of a call nreads(fastq=...) on the same file
  s1, s2,           \* the two FastqIterators of fastqs_are_pair
  done1, done2,     \* izip_longest: the iterator was found exhausted
  i,                \* the loop counter of fastqs_are_pair
  ret,              \* how fastqs_are_pair ended: its value, or the exception
  pulls1, pulls2,   \* the number of next() calls made on s1 and on s2
  str_a,            \* the text str(id_a) returned
  id_r,             \* the SequenceIdentifier object built from str_a
  fq,               \* a FastqRead object
  fq_seqid,         \* its attribute _seqid: <<>> while unassigned
  prop_out,         \* the last property of fq that was read, and its value
  solid_runs,       \* the argument of get_experiments
  phase,            \* where get_experiments is: "for", "naming", "while", "return"
  nvisited,         \* the number of projects the first loop has visited
  experiments,      \* the list experiments
  analysis_dirs,    \* the list analysis_dirs
  nexpt,            \* the number of experiments the second loop has taken up
  index,            \* the suffix counter of the while loop
  dirn              \* the directory name of the while loop

idvars == <<line_a, line_b, id_a, id_b, out_ab, out_ba>>
itvars == <<it, outcome, nlines, rec, nrecords>>
atvars == <<at, q_out, nqueries, fn_out>>
pairvars == <<s1, s2, done1, done2, i, ret, pulls1, pulls2>>
reprvars == <<str_a, id_r>>
readvars == <<fq, fq_seqid, prop_out>>
exptvars == <<solid_runs, phase, nvisited, experiments, analysis_dirs, nexpt, index, dirn>>
vars == <<idvars, itvars, atvars, pairvars, reprvars, readvars, exptvars>>

\* No object yet: not even self.format is assigned
NoObject == [a \in Attrs |-> Unset]

Built(obj) == obj["format"] # Unset

NoProperty == [name |-> "none", value |-> 0]

ReprIdle ==
  /\ str_a = Unset
  /\ id_r = NoObject

ReadIdle ==
  /\ fq = NoRead
  /\ fq_seqid = <<>>
  /\ prop_out = NoProperty

ExptIdle ==
  /\ solid_runs = <<>>
  /\ phase = "idle"
  /\ nvisited = 0
  /\ experiments = <<>>
  /\ analysis_dirs = <<>>
  /\ nexpt = 0
  /\ index = 1
  /\ dirn = <<>>

(***************************************************************************)
(* SpecId: two identifier lines are parsed and the two objects compared in *)
(* both directions.                                                        *)
(***************************************************************************)
IdIdle ==
  /\ line_a = <<>> /\ line_b = <<>>
  /\ id_a = NoObject /\ id_b = NoObject
  /\ out_ab = "none" /\ out_ba = "none"

ItIdle ==
  /\ it = FastqIterator(Path, FALSE, <<>>)
  /\ outcome = "none"
  /\ nlines = 0
  /\ rec = NoRead
  /\ nrecords = 0

NoOutcome == [outcome |-> "none", value |-> 0]

AtIdle ==
  /\ at = FastqAttributes(Path, FALSE, <<>>)
  /\ q_out = NoOutcome
  /\ nqueries = 0
  /\ fn_out = NoOutcome

PairIdle ==
  /\ s1 = FastqIterator(Path, FALSE, <<>>)
  /\ s2 = FastqIterator(Path, FALSE, <<>>)
  /\ done1 = FALSE /\ done2 = FALSE
  /\ i = 0
  /\ ret = "none"
  /\ pulls1 = 0 /\ pulls2 = 0

InitId ==
  /\ ItIdle /\ AtIdle /\ PairIdle /\ ReprIdle /\ ReadIdle /\ ExptIdle
  /\ line_a \in IdLines
  /\ line_b \in IdLines
  /\ id_a = NoObject
  /\ id_b = NoObject
  /\ out_ab = "none"
  /\ out_ba = "none"

NewA ==
  /\ ~Built(id_a)
  /\ id_a' = SequenceIdentifier(line_a)
  /\ UNCHANGED <<line_a, line_b, id_b, out_ab, out_ba, reprvars>>
  /\ UNCHANGED <<itvars, atvars, pairvars, readvars, exptvars>>

NewB ==
  /\ ~Built(id_b)
  /\ id_b' = SequenceIdentifier(line_b)
  /\ UNCHANGED <<line_a, line_b, id_a, out_ab, out_ba, reprvars>>
  /\ UNCHANGED <<itvars, atvars, pairvars, readvars, exptvars>>

PairAB ==
  /\ Built(id_a) /\ Built(id_b)
  /\ out_ab = "none"
  /\ out_ab' = is_pair_of(id_a, id_b)
  /\ UNCHANGED <<line_a, line_b, id_a, id_b, out_ba, reprvars>>
  /\ UNCHANGED <<itvars, atvars, pairvars, readvars, exptvars>>

PairBA ==
  /\ Built(id_a) /\ Built(id_b)
  /\ out_ba = "none"
  /\ out_ba' = is_pair_of(id_b, id_a)
  /\ UNCHANGED <<line_a, line_b, id_a, id_b, out_ab, reprvars>>
  /\ UNCHANGED <<itvars, atvars, pairvars, readvars, exptvars>>

NextId == NewA \/ NewB \/ PairAB \/ PairBA

SpecId == InitId /\ [][NextId]_vars

(***************************************************************************)
(* Spec: one FastqIterator over one file, pulled from any number of times. *)
(***************************************************************************)
Init ==
  /\ IdIdle /\ AtIdle /\ PairIdle /\ ReprIdle /\ ReadIdle /\ ExptIdle
  /\ \E n \in 0..MaxLines, final_newline \in BOOLEAN, c \in Constructions :
       \E lines \in [1..n -> FileLines] :
         it = FastqIterator(c[1], c[2], Content(lines, final_newline))
  /\ outcome = "none"
  /\ nlines = 0
  /\ rec = NoRead
  /\ nrecords = 0

\* One call of it.next()
Pull ==
  LET r == next(it)
  IN  /\ it' = r.it
      /\ outcome' = r.outcome
      /\ nlines' = r.nlines
      /\ rec' = r.read
      /\ nrecords' = IF r.outcome = "FastqRead" THEN nrecords + 1 ELSE nrecords
      /\ UNCHANGED <<idvars, atvars, pairvars, reprvars, readvars, exptvars>>

Next == Pull

Spec == Init /\ [][Next]_vars

(***************************************************************************)
(* SpecCount: one FastqAttributes object whose nreads is queried up to     *)
(* MaxQueries times, and the function nreads called on the file's name.    *)
(***************************************************************************)
MaxQueries == 2

InitCount ==
  /\ IdIdle /\ ItIdle /\ PairIdle /\ ReprIdle /\ ReadIdle /\ ExptIdle
  /\ \E n \in 0..MaxCountLines, final_newline \in BOOLEAN, c \in Constructions :
       \E lines \in [1..n -> CountLines] :
         at = FastqAttributes(c[1], c[2], Content(lines, final_newline))
  /\ q_out = NoOutcome
  /\ nqueries = 0
  /\ fn_out = NoOutcome

\* One read of the property at.nreads
QueryNreads ==
  LET r == FastqAttributes_nreads(at)
  IN  /\ nqueries < MaxQueries
      /\ at' = r.self
      /\ q_out' = [outcome |-> r.outcome, value |-> r.value]
      /\ nqueries' = nqueries + 1
      /\ UNCHANGED <<fn_out, idvars, itvars, pairvars, reprvars, readvars, exptvars>>

\* One call nreads(fastq=name) on the file the object was built on
CallNreads ==
  LET r == nreads(Path, <<>>, at.fp.data)
  IN  /\ fn_out.outcome = "none"
      /\ fn_out' = [outcome |-> r.outcome, value |-> r.value]
      /\ UNCHANGED <<at, q_out, nqueries, idvars, itvars, pairvars, reprvars, readvars, exptvars>>

NextCount == QueryNreads \/ CallNreads

SpecCount == InitCount /\ [][NextCount]_vars

(***************************************************************************)
(* SpecPair: fastqs_are_pair on two files, one loop iteration per step.    *)
(***************************************************************************)
InitPair ==
  /\ IdIdle /\ ItIdle /\ AtIdle /\ ReprIdle /\ ReadIdle /\ ExptIdle
  /\ \E n1 \in 0..MaxReads, n2 \in 0..MaxReads, t1 \in BOOLEAN, t2 \in BOOLEAN,
        c \in Constructions :
       \E ids1 \in [1..n1 -> PairIds], ids2 \in [1..n2 -> PairIds] :
         /\ s1 = FastqIterator(c[1], c[2], PairFile(ids1, t1))
         /\ s2 = FastqIterator(c[1], c[2], PairFile(ids2, t2))
  /\ done1 = FALSE /\ done2 = FALSE
  /\ i = 0
  /\ ret = "none"
  /\ pulls1 = 0 /\ pulls2 = 0

\* One iteration of the for loop: izip_longest produces the next pair or
\* ends the loop (return True); the body counts the pair and tests it
\* (return False when the test fails, the exception when it raises)
\* The loop of fastqs_are_pair on the izip_longest step z, t being the
\* outcome of the test of the body
LoopStep(z, t) ==
  /\ ret = "none"
  /\ s1' = z.a /\ s2' = z.b
  /\ done1' = z.done1 /\ done2' = z.done2
  /\ pulls1' = pulls1 + z.n1 /\ pulls2' = pulls2 + z.n2
  /\ i' = IF z.result = "item" THEN i + 1 ELSE i
  /\ ret' = IF z.result = "stop" THEN "True"
            ELSE IF z.result = "ValueError" THEN "ValueError"
            ELSE IF t = "True" THEN "none"
            ELSE t
  /\ UNCHANGED <<idvars, itvars, atvars, reprvars, readvars, exptvars>>

\* The body runs only when izip_longest produced a pair
LoopOn(z) == LoopStep(z, IF z.result = "item" THEN BodyTest(z.r1, z.r2) ELSE "none")

Iterate == LoopOn(izip_longest(s1, s2, done1, done2))

NextPair == Iterate

SpecPair == InitPair /\ [][NextPair]_vars

(***************************************************************************)
(* SpecBoth: the reads of one file are counted through a FastqAttributes   *)
(* object and iterated over by a FastqIterator, each on a handle of its    *)
(* own.                                                                    *)
(***************************************************************************)
InitBoth ==
  /\ IdIdle /\ PairIdle /\ ReprIdle /\ ReadIdle /\ ExptIdle
  /\ \E n \in 0..MaxCountLines, final_newline \in BOOLEAN, c \in Constructions :
       \E lines \in [1..n -> CountLines] :
         /\ at = FastqAttributes(c[1], c[2], Content(lines, final_newline))
         /\ it = FastqIterator(c[1], c[2], Content(lines, final_newline))
  /\ q_out = NoOutcome
  /\ nqueries = 0
  /\ fn_out = NoOutcome
  /\ outcome = "none"
  /\ nlines = 0
  /\ rec = NoRead
  /\ nrecords = 0

NextBoth == QueryNreads \/ Pull

SpecBoth == InitBoth /\ [][NextBoth]_vars

(***************************************************************************)
(* SpecRepr: one identifier line is parsed, the object rendered with       *)
(* str() and the rendered text parsed again.                               *)
(***************************************************************************)
InitRepr ==
  /\ ItIdle /\ AtIdle /\ PairIdle /\ ReprIdle /\ ReadIdle /\ ExptIdle
  /\ line_a \in IdLines
  /\ line_b = <<>>
  /\ id_a = NoObject
  /\ id_b = NoObject
  /\ out_ab = "none"
  /\ out_ba = "none"

Render ==
  /\ Built(id_a)
  /\ str_a = Unset
  /\ str_a' = SequenceIdentifier_repr(id_a)
  /\ UNCHANGED <<idvars, id_r, itvars, atvars, pairvars, readvars, exptvars>>

Reparse ==
  /\ str_a # Unset
  /\ ~Built(id_r)
  /\ id_r' = SequenceIdentifier(str_a)
  /\ UNCHANGED <<idvars, str_a, itvars, atvars, pairvars, readvars, exptvars>>

NextRepr == NewA \/ Render \/ Reparse

SpecRepr == InitRepr /\ [][NextRepr]_vars

(***************************************************************************)
(* SpecRead: one FastqRead object whose properties are read any number of  *)
(* times, in any order.                                                    *)
(***************************************************************************)
InitRead ==
  /\ IdIdle /\ ItIdle /\ AtIdle /\ PairIdle /\ ReprIdle /\ ExptIdle
  /\ \E l \in ReadIdLines, s \in Strings(SeqChars, MaxSeqLen),
        q \in Strings(QualChars, MaxQualLen) :
       fq = FastqRead(l \o <<NL>>, s \o <<NL>>, <<"+", NL>>, q \o <<NL>>)
  /\ fq_seqid = <<>>
  /\ prop_out = NoProperty

GetIsColorspace ==
  /\ fq_seqid' = <<FastqRead_seqid(fq, fq_seqid)>>
  /\ prop_out' = [name |-> "is_colorspace", value |-> is_colorspace(fq, fq_seqid)]
  /\ UNCHANGED <<fq, idvars, itvars, atvars, pairvars, reprvars, exptvars>>

GetSeqlen ==
  /\ fq_seqid' = <<FastqRead_seqid(fq, fq_seqid)>>
  /\ prop_out' = [name |-> "seqlen", value |-> seqlen(fq, fq_seqid)]
  /\ UNCHANGED <<fq, idvars, itvars, atvars, pairvars, reprvars, exptvars>>

GetMaxquality ==
  /\ prop_out' = [name |-> "maxquality", value |-> maxquality(fq)]
  /\ UNCHANGED <<fq, fq_seqid, idvars, itvars, atvars, pairvars, reprvars, exptvars>>

GetMinquality ==
  /\ prop_out' = [name |-> "minquality", value |-> minquality(fq)]
  /\ UNCHANGED <<fq, fq_seqid, idvars, itvars, atvars, pairvars, reprvars, exptvars>>

NextRead == GetIsColorspace \/ GetSeqlen \/ GetMaxquality \/ GetMinquality

SpecRead == InitRead /\ [][NextRead]_vars

(***************************************************************************)
(* SpecExpt: one call of get_experiments, a step per iteration of its      *)
(* loops.                                                                  *)
(***************************************************************************)
InitExpt ==
  /\ IdIdle /\ ItIdle /\ AtIdle /\ PairIdle /\ ReprIdle /\ ReadIdle
  /\ \E n \in 0..MaxProjects, one_sample \in BOOLEAN :
       \E kinds \in [1..n -> ProjectKinds], r \in 0..n :
         solid_runs = SolidRuns(kinds, r, one_sample)
  /\ phase = "for"
  /\ nvisited = 0
  /\ experiments = <<>>
  /\ analysis_dirs = <<>>
  /\ nexpt = 0
  /\ index = 1
  /\ dirn = <<>>

\* One iteration of the innermost for loop, on the visit v
Visit(v) ==
  /\ experiments' = Group(experiments, SolidExperiment(v.project, v.run), v.project)
  /\ nvisited' = nvisited + 1
  /\ UNCHANGED <<solid_runs, phase, analysis_dirs, nexpt, index, dirn>>
  /\ UNCHANGED <<idvars, itvars, atvars, pairvars, reprvars, readvars>>

VisitNext(todo) ==
  /\ phase = "for"
  /\ nvisited < Len(todo)
  /\ Visit(todo[nvisited + 1])

VisitProject == VisitNext(ProjectsOfRuns(solid_runs))

\* The first loop is over: analysis_dirs = []
StartNaming ==
  /\ phase = "for"
  /\ nvisited = Len(ProjectsOfRuns(solid_runs))
  /\ phase' = "naming"
  /\ analysis_dirs' = <<>>
  /\ UNCHANGED <<solid_runs, nvisited, experiments, nexpt, index, dirn>>
  /\ UNCHANGED <<idvars, itvars, atvars, pairvars, reprvars, readvars>>

\* The experiment taken up has had getAnalysisDir called, with result r
Named(e, r) ==
  /\ experiments' = [experiments EXCEPT ![e] = r.self]
  /\ dirn' = r.value

\* The second loop takes up the next experiment: index = 1 and
\* dirn = expt.getAnalysisDir()
TakeExperiment ==
  /\ phase = "naming"
  /\ nexpt < Len(experiments)
  /\ nexpt' = nexpt + 1
  /\ index' = 1
  /\ Named(nexpt + 1, getAnalysisDir(experiments[nexpt + 1], <<>>))
  /\ phase' = "while"
  /\ UNCHANGED <<solid_runs, nvisited, analysis_dirs>>
  /\ UNCHANGED <<idvars, itvars, atvars, pairvars, reprvars, readvars>>

\* One iteration of the while loop: the base name is taken already
WhileBody ==
  /\ phase = "while"
  /\ \E k \in 1..Len(analysis_dirs) : analysis_dirs[k] = os_path_basename(dirn)
  /\ index' = index + 1
  /\ Named(nexpt, getAnalysisDir(experiments[nexpt], <<"_">> \o str(index + 1)))
  /\ UNCHANGED <<solid_runs, phase, nvisited, analysis_dirs, nexpt>>
  /\ UNCHANGED <<idvars, itvars, atvars, pairvars, reprvars, readvars>>

\* The while loop ends: the base name is appended to analysis_dirs
WhileExit ==
  /\ phase = "while"
  /\ ~\E k \in 1..Len(analysis_dirs) : analysis_dirs[k] = os_path_basename(dirn)
  /\ analysis_dirs' = Append(analysis_dirs, os_path_basename(dirn))
  /\ phase' = "naming"
  /\ UNCHANGED <<solid_runs, nvisited, experiments, nexpt, index, dirn>>
  /\ UNCHANGED <<idvars, itvars, atvars, pairvars, reprvars, readvars>>

\* return experiments
Return ==
  /\ phase = "naming"
  /\ nexpt = Len(experiments)
  /\ phase' = "return"
  /\ UNCHANGED <<solid_runs, nvisited, experiments, analysis_dirs, nexpt, index, dirn>>
  /\ UNCHANGED <<idvars, itvars, atvars, pairvars, reprvars, readvars>>

NextExpt ==
  VisitProject \/ StartNaming \/ TakeExperiment \/ WhileBody \/ WhileExit \/ Return

SpecExpt == InitExpt /\ [][NextExpt]_vars

(***************************************************************************)
(* Properties of the iterator (Spec)                                       *)
(***************************************************************************)

\* C1: at the end of its source the stream closes the handle if and only if
\* it opened the handle itself from a path; a handle supplied by the caller
\* is never closed by the stream.  The code violates it: the test of next()
\* is inverted (it closes when no file name was given, that is exactly when
\* the handle is the caller's).
ClosesExactlyOwnHandle ==
  /\ outcome = "StopIteration" => (it.fp.closed <=> ~it.fp_given)
  /\ it.fp_given => ~it.fp.closed

\* C2: a pull that finds 1, 2 or 3 lines of a four-line group before the end
\* of the source fails with a TruncatedRecordError, and the iteration ends
\* cleanly only when a pull finds no line at all.  The code violates it: it
\* ends the iteration whenever the fourth line is missing.
TruncatedRecordIsError ==
  /\ nlines \in 1..3 => outcome = "TruncatedRecordError"
  /\ outcome = "StopIteration" => nlines = 0

(***************************************************************************)
(* Properties of the pairing predicate and of the parser (SpecId)          *)
(***************************************************************************)

\* C3: is_pair_of is a total boolean predicate: whatever the two parsed
\* identifiers are, the call returns True or False and raises nothing.
\* The code violates it: the int() conversions of the pair ids are made
\* before the try block.
IsPairOfNeverRaises == out_ab \in {"none", "True", "False"}

\* C4: for two identifiers recognized under the same dialect, is_pair_of
\* returns True exactly when the two pair ids are the numbers 1 and 2 (in
\* either order) and each of the eleven other fields is equal in the two.
SameDialectPairing ==
  LET pa == int(id_a["pair_id"])
      pb == int(id_b["pair_id"])
      others == {"instrument_name", "run_id", "flowcell_id", "flowcell_lane",
                 "tile_no", "x_coord", "y_coord", "multiplex_index_no",
                 "bad_read", "control_bit_flag", "index_sequence"}
  IN  (/\ out_ab # "none"
       /\ id_a["format"] \in {illumina18, illumina}
       /\ id_a["format"] = id_b["format"])
      => (out_ab = "True"
            <=> /\ pa.err = "ok" /\ pb.err = "ok"
                /\ {pa.val, pb.val} = {1, 2}
                /\ \A f \in others : id_a[f] = id_b[f])

\* A pair of earlier-Illumina identifiers, read 2 then read 1, found to pair
SameDialectPairingWitness ==
  /\ out_ab = "True"
  /\ id_a["format"] = illumina /\ id_b["format"] = illumina
  /\ id_a["pair_id"] = <<"2">> /\ id_b["pair_id"] = <<"1">>

\* C5: is_pair_of is symmetric: a.is_pair_of(b) and b.is_pair_of(a) have the
\* same outcome.  The code violates it where both calls raise (C3): the
\* exception is the one of the first pair id converted, which depends on the
\* order of the arguments.
PairingSymmetric ==
  (out_ab # "none" /\ out_ba # "none") => out_ab = out_ba

\* C6: is_pair_of returns True only for two identifiers that are both
\* recognized and of the same dialect.
TrueOnlyWithinDialect ==
  out_ab = "True"
    => (id_a["format"] \in {illumina18, illumina} /\ id_a["format"] = id_b["format"])

\* Two unrecognized identifiers on which the failed Illumina 1.8+ attempt left
\* pair ids 1 and 2 and equal fields otherwise, compared and found unpaired
TrueOnlyWithinDialectWitness ==
  /\ out_ab = "False"
  /\ id_a["format"] = None /\ id_b["format"] = None
  /\ id_a["pair_id"] = <<"1">> /\ id_b["pair_id"] = <<"2">>
  /\ \A f \in {"instrument_name", "flowcell_lane", "tile_no", "x_coord", "y_coord"} :
       id_a[f] # Unset /\ id_a[f] = id_b[f]

\* C9: the parser raises nothing and leaves no partial state: an identifier
\* classified unrecognized carries its text and no dialect field, and a line
\* that does not start with '@' is unrecognized.  The code violates it: the
\* assignments a failed attempt made before its IndexError stay on the object.
UnrecognizedCarriesNoFields ==
  Built(id_a)
    => /\ id_a["format"] \in {None, illumina18, illumina}
       /\ ~startswith(line_a, "@") => id_a["format"] = None
       /\ id_a["format"] = None
            => \A f \in Attrs \ {"seqid", "format"} : id_a[f] = Unset

\* C10: a line starting with '@' is Illumina 1.8+ exactly when the text after
\* the marker splits on ':' into 10 fields of which the 7th contains a space,
\* and the attributes are then the fields taken by position.  The code
\* violates the "exactly": it accepts any line of 10 or more fields.
Illumina18ExactlyTenFields ==
  LET fields == split(Tail0(strip(line_a), 1), ":")
      seventh == split(fields[7], " ")
  IN  (Built(id_a) /\ startswith(line_a, "@"))
        => /\ id_a["format"] = illumina18
                <=> (Len(fields) = 10 /\ \E j \in 1..Len(fields[7]) : fields[7][j] = " ")
           /\ id_a["format"] = illumina18
                => /\ id_a["instrument_name"] = fields[1]
                   /\ id_a["run_id"] = fields[2]
                   /\ id_a["flowcell_id"] = fields[3]
                   /\ id_a["flowcell_lane"] = fields[4]
                   /\ id_a["tile_no"] = fields[5]
                   /\ id_a["x_coord"] = fields[6]
                   /\ id_a["y_coord"] = seventh[1]
                   /\ id_a["pair_id"] = seventh[2]
                   /\ id_a["bad_read"] = fields[8]
                   /\ id_a["control_bit_flag"] = fields[9]
                   /\ id_a["index_sequence"] = fields[10]

(***************************************************************************)
(* Properties of nreads (SpecCount) and of fastqs_are_pair (SpecPair)      *)
(***************************************************************************)

\* C7: fastqs_are_pair returns True if the two inputs hold the same number of
\* reads and every read of the first pairs with the read at the same position
\* of the second, and returns False otherwise, also when one input has more
\* reads than the other.  The code violates it: izip_longest pads the shorter
\* input with None, and the loop body raises AttributeError on it.
PairCheckReturnsBoolean ==
  LET a == AllReads(FastqIterator(s1.fastq_file, s1.fp_given, s1.fp.data))
      b == AllReads(FastqIterator(s2.fastq_file, s2.fp_given, s2.fp.data))
      paired == /\ Len(a) = Len(b)
                /\ \A k \in 1..Len(a) : BodyTest(a[k], b[k]) = "True"
  IN  ret # "none" => ret = (IF paired THEN "True" ELSE "False")

\* C8: the first count of a source with N newline characters is N / 4 when N
\* is a multiple of 4 (0 for an empty source), and fails with the exception of
\* a malformed file, returning no count, when it is not; both through
\* FastqAttributes.nreads and through the function nreads.
CountIsNewlinesOverFour ==
  LET n == count(at.fp.data, NL)
      expected == IF n % 4 = 0 THEN [outcome |-> "return", value |-> n \div 4]
                  ELSE [outcome |-> "Exception", value |-> 0]
  IN  /\ nqueries = 1 => q_out = expected
      /\ fn_out.outcome # "none" => fn_out = expected

\* A source of three lines whose first count has failed
CountIsNewlinesOverFourWitness ==
  /\ nqueries = 1
  /\ count(at.fp.data, NL) = 3
  /\ q_out.outcome = "Exception"

\* C11: a line starting with '@' that is not Illumina 1.8+ is earlier-Illumina
\* exactly when the text after the marker has 5 colon-separated fields of
\* which the last has the form y#index/pair; multiplex_index_no is then the
\* text between '#' and '/', pair_id the text after '/', and run_id,
\* flowcell_id, bad_read, control_bit_flag and index_sequence are None; any
\* other such line is unrecognized.  The code violates the "exactly": it
\* accepts any line of 5 or more fields whose 5th field has that form.
LegacyExactlyFiveFields ==
  LET fields == split(Tail0(strip(line_a), 1), ":")
      last == fields[5]
      hash == CHOOSE p \in 1..Len(last) : last[p] = "#" /\ \A q \in 1..(p - 1) : last[q] # "#"
      slash == CHOOSE p \in (hash + 1)..Len(last) :
                 last[p] = "/" /\ \A q \in (hash + 1)..(p - 1) : last[q] # "/"
      shape == /\ Len(fields) = 5
               /\ \E p \in 1..Len(last) : \E q \in (p + 1)..Len(last) :
                    last[p] = "#" /\ last[q] = "/"
  IN  (Built(id_a) /\ startswith(line_a, "@") /\ id_a["format"] # illumina18)
        => /\ id_a["format"] = illumina <=> shape
           /\ ~shape => id_a["format"] = None
           /\ id_a["format"] = illumina
                => /\ id_a["instrument_name"] = fields[1]
                   /\ id_a["flowcell_lane"] = fields[2]
                   /\ id_a["tile_no"] = fields[3]
                   /\ id_a["x_coord"] = fields[4]
                   /\ id_a["y_coord"] = SubSeq(last, 1, hash - 1)
                   /\ id_a["multiplex_index_no"] = SubSeq(last, hash + 1, slash - 1)
                   /\ id_a["pair_id"] = SubSeq(last, slash + 1, Len(last))
                   /\ \A f \in {"run_id", "flowcell_id", "bad_read",
                                "control_bit_flag", "index_sequence"} : id_a[f] = None

\* C12: for every unrecognized line, leading or trailing whitespace and the
\* line terminator included, str() of the object is exactly the original
\* text.  The code returns the stripped text instead.
UnrecognizedRendersVerbatim ==
  (Built(id_a) /\ id_a["format"] = None /\ str_a # Unset) => str_a = line_a

\* C13: for every line classified Illumina 1.8+, parsing the text str()
\* returns gives an Illumina 1.8+ object with the same value in every
\* field.  Violated on lines of more than 10 fields (C10) whose 10th field
\* ends in whitespace.
Illumina18RoundTrip ==
  (Built(id_a) /\ id_a["format"] = illumina18 /\ Built(id_r))
    => \A a \in Attrs \ {"seqid"} : id_r[a] = id_a[a]

\* C14: every record a FastqIterator returns has a quality string as long
\* as its sequence, and neither contains a line terminator.  The code never
\* compares the two lengths.
RecordLengthsAgree ==
  outcome = "FastqRead"
    => /\ Len(rec.quality) = Len(rec.sequence)
       /\ \A k \in 1..Len(rec.sequence) : rec.sequence[k] # NL
       /\ \A k \in 1..Len(rec.quality) : rec.quality[k] # NL

\* C15: seqlen is len(sequence) - 1 when the read is detected as colorspace
\* (its identifier is of neither dialect, its sequence starts with 'T' and
\* every later character is one of '.0123'), and len(sequence) otherwise.
SeqlenAsDocumented ==
  LET sequence == fq.sequence
      detected == /\ SequenceIdentifier(fq.raw_seqid)["format"] \notin {illumina18, illumina}
                  /\ Len(sequence) >= 1
                  /\ sequence[1] = "T"
                  /\ \A k \in 2..Len(sequence) : sequence[k] \in {".", "0", "1", "2", "3"}
  IN  prop_out.name = "seqlen"
        => prop_out.value = IF detected THEN Len(sequence) - 1 ELSE Len(sequence)

\* A colorspace read of three characters whose seqlen was read as 2
SeqlenAsDocumentedWitness ==
  /\ prop_out.name = "seqlen"
  /\ prop_out.value = 2
  /\ fq.sequence = <<"T", "0", ".">>
  /\ fq_seqid # <<>>

\* C16: for every read, one with an empty quality string included,
\* minquality and maxquality are defined, minquality <= q <= maxquality for
\* every quality character q, and both occur in a non-empty quality string.
\* On an empty quality string the code raises TypeError.
QualityBoundsDefined ==
  /\ prop_out.name = "maxquality"
       => /\ prop_out.value # TypeError
          /\ \A k \in 1..Len(fq.quality) : ord[fq.quality[k]] <= ord[prop_out.value[1]]
          /\ fq.quality # <<>> => \E k \in 1..Len(fq.quality) : prop_out.value = <<fq.quality[k]>>
  /\ prop_out.name = "minquality"
       => /\ prop_out.value # TypeError
          /\ \A k \in 1..Len(fq.quality) : ord[prop_out.value[1]] <= ord[fq.quality[k]]
          /\ fq.quality # <<>> => \E k \in 1..Len(fq.quality) : prop_out.value = <<fq.quality[k]>>

\* C17: fastqs_are_pair halts at the first mismatch: when position p
\* (1-based) is the first at which the two records do not pair, the function
\* has ended with p as the position counted, False as its value and exactly
\* p records pulled from each stream (no pull follows, the loop being over).
\* The code raises instead of returning False when the test of the pair
\* raises (C3).
FirstMismatchHalts ==
  LET a == AllReads(FastqIterator(s1.fastq_file, s1.fp_given, s1.fp.data))
      b == AllReads(FastqIterator(s2.fastq_file, s2.fp_given, s2.fp.data))
      mismatches == {k \in 1..min(Len(a), Len(b)) : BodyTest(a[k], b[k]) # "True"}
      first == CHOOSE k \in mismatches : \A j \in mismatches : k <= j
  IN  (ret # "none" /\ mismatches # {})
        => /\ ret = "False"
           /\ i = first
           /\ pulls1 = first
           /\ pulls2 = first

\* C18: the read count of a FastqAttributes object is computed once: every
\* query after the first has the outcome of the one before it (so of the
\* first) and leaves the handle where it was, whether the first returned or
\* raised.  The code caches only a returned count: after a query that
\* raised, the next one counts again.
CountComputedOnce ==
  [][(nqueries >= 1 /\ nqueries' = nqueries + 1)
       => (q_out' = q_out /\ at'.fp = at.fp)]_vars

\* C19: whenever counting the reads of a file succeeds and returns n, a
\* FastqIterator over the same content has returned exactly n records when
\* it signals the end.
CountMatchesIteration ==
  (nqueries = 1 /\ q_out.outcome = "return" /\ outcome = "StopIteration")
    => nrecords = q_out.value

\* A file of one record followed by a line without terminator: the count
\* is 1 and the iteration has ended after 1 record
CountMatchesIterationWitness ==
  /\ nqueries = 1
  /\ q_out = [outcome |-> "return", value |-> 1]
  /\ outcome = "StopIteration"
  /\ nrecords = 1
  /\ it.fp.data # <<>>
  /\ it.fp.data[Len(it.fp.data)] # NL

\* C20: a FastqIterator stays exhausted: once a pull has signalled the end,
\* every later pull signals the end too (no record, no other error), for an
\* iterator on a path and for one on a handle of the caller.  The code
\* closes the caller's handle at the end, so the next pull raises
\* ValueError.
StaysExhausted ==
  [][outcome = "StopIteration" => outcome' = "StopIteration"]_vars

\* The projects of the runs, in the order of the loops
Visited == ProjectsOfRuns(solid_runs)

\* The experiments that hold the project of the k-th visit, once for each
\* place it has in their lists
PlacesOf(k) ==
  {<<e, m>> \in (1..Len(experiments)) \X (1..MaxProjects + 1) :
     /\ m <= Len(experiments[e].projects)
     /\ experiments[e].projects[m] = Visited[k].project}

\* The distinct library prefixes of the project of the k-th visit; two
\* sorted lists of distinct prefixes are equal exactly when these sets are
PrefixSet(k) ==
  {Visited[k].project.libraries[m] : m \in 1..Len(Visited[k].project.libraries)}

\* The state part of C21, on the experiments returned
GroupedAndNamed ==
  phase = "return"
    => /\ \A k \in 1..Len(Visited) : Cardinality(PlacesOf(k)) = 1
       /\ \A j, k \in 1..Len(Visited) :
            (\E e \in 1..Len(experiments) :
               \E m, n \in 1..Len(experiments[e].projects) :
                 /\ experiments[e].projects[m] = Visited[j].project
                 /\ experiments[e].projects[n] = Visited[k].project)
              <=> PrefixSet(j) = PrefixSet(k)
       /\ \A e, f \in 1..Len(experiments) :
            e # f => os_path_basename(experiments[e].analysis_dir)
                       # os_path_basename(experiments[f].analysis_dir)
       /\ \A e \in 1..Len(experiments) :
            \/ os_path_basename(experiments[e].analysis_dir)
                 = getExperimentName(experiments[e])
            \/ \E k \in 2..Len(experiments) :
                 os_path_basename(experiments[e].analysis_dir)
                   = getExperimentName(experiments[e]) \o <<"_">> \o str(k)

\* C21: after get_experiments over any list of runs, every project of every
\* sample is in exactly one returned experiment, two projects are in the
\* same experiment exactly when their sorted lists of library prefixes are
\* equal, and the base names of the analysis directories of the returned
\* experiments are pairwise distinct, a clash being resolved by appending
\* _2, _3, ...; the while loop that does so terminates: index, to which
\* each of its iterations adds one, never exceeds by more than one the
\* length of analysis_dirs, which the loop leaves alone, and the two for
\* loops never run past their lists.
ExperimentsGroupedAndNamed ==
  /\ GroupedAndNamed
  /\ phase = "while" => index <= Len(analysis_dirs) + 1
  /\ nvisited <= Len(Visited)
  /\ nexpt <= Len(experiments)

\* Three projects returned as two experiments: the first two share their
\* prefixes, the third has others but the same name and was given _2
ExperimentsGroupedAndNamedWitness ==
  /\ phase = "return"
  /\ Len(experiments) = 2
  /\ Len(experiments[1].projects) = 2
  /\ experiments[1].projects[1].run_dir # experiments[1].projects[2].run_dir
  /\ os_path_basename(experiments[2].analysis_dir)
       = <<"P", "J", "_", "e", "x", "p", "t", "_", "2">>

====
